---- MODULE Spec2Model ----
(***************************************************************************)
(* A model of scrape_new.py: the per-candidate extraction and date filter, *)
(* the site crawl, the feed crawl and main.                                 *)
(*                                                                          *)
(* Strings are sequences of tokens: "a" is a visible character, "SP" a     *)
(* blank, "NL" a newline, "SUFFIX" the literal substring ' - The Wire'.     *)
(* A calendar date is <<year, month, day>>; a time of day is counted in    *)
(* half hours (0..47), so that Asia/Kolkata is UTC + 11 half hours.         *)
(***************************************************************************)
EXTENDS Integers, Sequences, FiniteSets, TLC

VARIABLES
    today_ist,      \* module global today_ist (line 37)
    \* ---- one candidate taken through the body of scrape_site's loop ----
    cpc,            \* "start" | "extracted" | "done" | "raised"
    link,           \* the candidate URL
    page,           \* what the web serves for it
    art,            \* <<>> (None) or <<article_data>>
    keep,           \* the keep flag of scrape_site
    row,            \* <<>> or <<the row appended to results>>
    \* ---- main ----
    mpc,            \* position of main
    all_rows,       \* main's all_rows
    siteIdx,        \* index into SITES of the site being crawled
    spc,            \* position of scrape_site
    seedIdx,        \* index of the next seed of the site
    seedsOk,        \* seeds of this site whose fetch returned a page
    candidate_links,\* scrape_site's candidate_links (a set)
    todo,           \* the capped slice still to iterate
    attempts,       \* bag (function link -> count) of extraction attempts, this site
    passed,         \* links of this site that extracted and passed the date filter
    results,        \* scrape_site's results
    feedTodo,       \* feed entries still to iterate
    feedLog,        \* per feed entry: what the entry was and what came of it
    siteLog,        \* per finished site: how scrape_site ended and what it returned
    sinceFetch,     \* per origin: "never" | "slept" | "nosleep" since the last fetch
    lastFetch       \* the last fetch issued: origin, kind, and the state of sinceFetch before it

candVars == <<cpc, link, page, art, keep, row>>
mainVars == <<mpc, all_rows, siteIdx, spc, seedIdx, seedsOk, candidate_links, todo, attempts,
              passed, results, feedTodo, feedLog, siteLog, sinceFetch, lastFetch>>
vars == <<today_ist, cpc, link, page, art, keep, row, mpc, all_rows, siteIdx, spc,
          seedIdx, seedsOk, candidate_links, todo, attempts, passed, results, feedTodo,
          feedLog, siteLog, sinceFetch, lastFetch>>

(***************************************************************************)
(* Bounds of the model                                                      *)
(***************************************************************************)
MaxChunks == 3      \* path chunks of a candidate URL
MaxScripts == 2     \* ld+json script blocks of a page
MaxEntries == 2     \* entries of the feed
MaxFound == 2       \* links one seed page yields

(***************************************************************************)
(* Calendar and clock                                                       *)
(***************************************************************************)
None == <<>>
Some(x) == <<x>>

IsLeap(y) == (y % 4 = 0 /\ y % 100 # 0) \/ y % 400 = 0

DaysInMonth(y, m) ==
    IF m = 2 THEN (IF IsLeap(y) THEN 29 ELSE 28)
    ELSE IF m \in {4, 6, 9, 11} THEN 30 ELSE 31

\* datetime.date(y, m, d) succeeds (MINYEAR = 1, MAXYEAR = 9999)
ValidDate(y, m, d) ==
    /\ y >= 1 /\ y <= 9999
    /\ m >= 1 /\ m <= 12
    /\ d >= 1 /\ d <= DaysInMonth(y, m)

NextDay(dt) ==
    IF dt[3] < DaysInMonth(dt[1], dt[2]) THEN <<dt[1], dt[2], dt[3] + 1>>
    ELSE IF dt[2] < 12 THEN <<dt[1], dt[2] + 1, 1>>
    ELSE <<dt[1] + 1, 1, 1>>

PrevDay(dt) ==
    IF dt[3] > 1 THEN <<dt[1], dt[2], dt[3] - 1>>
    ELSE IF dt[2] > 1 THEN <<dt[1], dt[2] - 1, DaysInMonth(dt[1], dt[2] - 1)>>
    ELSE <<dt[1] - 1, 12, 31>>

IST_OFFSET == 11    \* ZoneInfo("Asia/Kolkata"): +05:30

\* dt.astimezone(IST) of an aware datetime [date, hh, off]
AsTimezoneIST(dt) ==
    LET t == dt.hh - dt.off + IST_OFFSET
    IN  IF t < 0 THEN [date |-> PrevDay(dt.date), hh |-> t + 48, off |-> IST_OFFSET]
        ELSE IF t >= 48
             THEN [date |-> NextDay(dt.date), hh |-> t - 48, off |-> IST_OFFSET]
        ELSE [date |-> dt.date, hh |-> t, off |-> IST_OFFSET]

\* the tzinfo branch of lines 218-221, 252-255, 309-312: a naive datetime is
\* taken as UTC, then converted; an aware one is converted directly
NormalizeIST(raw) ==
    IF raw.aware THEN AsTimezoneIST([date |-> raw.date, hh |-> raw.hh, off |-> raw.off])
    ELSE AsTimezoneIST([date |-> raw.date, hh |-> raw.hh, off |-> 0])

(***************************************************************************)
(* Strings                                                                  *)
(***************************************************************************)
Whitespace == {"SP", "NL"}
EmptyStr == <<>>

RECURSIVE LStrip(_)
LStrip(s) ==
    IF s = <<>> THEN s
    ELSE IF Head(s) \in Whitespace THEN LStrip(Tail(s)) ELSE s

RECURSIVE RStrip(_)
RStrip(s) ==
    IF s = <<>> THEN s
    ELSE IF s[Len(s)] \in Whitespace THEN RStrip(SubSeq(s, 1, Len(s) - 1)) ELSE s

\* str.strip()
Strip(s) == RStrip(LStrip(s))

\* str.replace("\n", " ")
ReplaceNewlines(s) == [i \in 1..Len(s) |-> IF s[i] = "NL" THEN "SP" ELSE s[i]]

\* str.replace(' - The Wire', '')
RemoveWireSuffix(s) == SelectSeq(s, LAMBDA c : c # "SUFFIX")

HasNewline(s) == \E i \in 1..Len(s) : s[i] = "NL"

\* ' '.join(parts) and ', '.join(parts); "CS" is the two characters ', '
RECURSIVE JoinWith(_, _)
JoinWith(sep, parts) ==
    IF parts = <<>> THEN <<>>
    ELSE IF Len(parts) = 1 THEN parts[1]
    ELSE parts[1] \o <<sep>> \o JoinWith(sep, Tail(parts))

SUMMARY_LIMIT == 200
MIN_PARAGRAPH == 20

\* s[:200] + "..." if len(s) > 200 else s   ("ELLIPSIS" is the three dots)
Truncate(s) ==
    IF Len(s) > SUMMARY_LIMIT THEN SubSeq(s, 1, SUMMARY_LIMIT) \o <<"ELLIPSIS">> ELSE s

(***************************************************************************)
(* URLs.  A candidate link is scheme://host/seg1/seg2/...: links are stored *)
(* with the query cut off and trailing slashes stripped (lines 177, 188),   *)
(* so a segment is followed by "/" exactly when another segment follows.    *)
(* A segment is a run of digits (k = "num", w digits, value v), a word, or  *)
(* a word that contains the ISO form of date d (k = "iso").                 *)
(***************************************************************************)
NoDate == <<0, 0, 0>>
Num(w, v) == [k |-> "num", w |-> w, v |-> v, s |-> "", d |-> NoDate]
Word(s) == [k |-> "word", w |-> 0, v |-> 0, s |-> s, d |-> NoDate]
IsoWord(d) == [k |-> "iso", w |-> 0, v |-> 0, s |-> "", d |-> d]

\* the strings of the model that contain the substring 'thewire.in'
WireStrings == {"m.thewire.in", "thewire.in-row"}

\* 'thewire.in' in url   (lines 292, 388)
ContainsTheWire(url) ==
    \/ url.host \in WireStrings
    \/ \E i \in 1..Len(url.path) : url.path[i].k = "word" /\ url.path[i].s \in WireStrings

\* the regular expression /(\d{4})/(\d{2})/(\d{2})/ matches at segment i
DatePatternAt(p, i) ==
    /\ i + 3 <= Len(p)
    /\ p[i].k = "num" /\ p[i].w = 4
    /\ p[i + 1].k = "num" /\ p[i + 1].w = 2
    /\ p[i + 2].k = "num" /\ p[i + 2].w = 2

\* as extract_date_from_thewire_url, but taking the rightmost match
ExtractDateRightmost(url) ==
    LET p == url.path
        hits == {i \in 1..Len(p) : DatePatternAt(p, i)}
    IN  IF hits = {} THEN None
        ELSE LET i == CHOOSE j \in hits : \A h \in hits : j >= h
             IN  IF ValidDate(p[i].v, p[i + 1].v, p[i + 2].v)
                 THEN Some(<<p[i].v, p[i + 1].v, p[i + 2].v>>)
                 ELSE None

\* re.search: the leftmost match, then datetime.date(...) or ValueError -> None
extract_date_from_thewire_url(url) ==
    LET p == url.path
        hits == {i \in 1..Len(p) : DatePatternAt(p, i)}
    IN  IF hits = {} THEN None
        ELSE LET i == CHOOSE j \in hits : \A h \in hits : j <= h
             IN  IF ValidDate(p[i].v, p[i + 1].v, p[i + 2].v)
                 THEN Some(<<p[i].v, p[i + 1].v, p[i + 2].v>>)
                 ELSE None

\* today_ist.isoformat() in urlparse(link).path
IsoInPath(url, d) == \E i \in 1..Len(url.path) : url.path[i].k = "iso" /\ url.path[i].d = d

Categories ==
    <<"politics", "economy", "business", "world", "india", "sports",
      "entertainment", "science", "tech", "technology", "education",
      "lifestyle", "health", "law", "rights", "society", "culture",
      "gender", "media", "opinion">>

Capitalized ==
    <<"Politics", "Economy", "Business", "World", "India", "Sports",
      "Entertainment", "Science", "Tech", "Technology", "Education",
      "Lifestyle", "Health", "Law", "Rights", "Society", "Culture",
      "Gender", "Media", "Opinion">>

\* f"/{cat}/" in path: a segment equal to cat with another segment after it
CategoryInPath(url, cat) ==
    \E i \in 1..(Len(url.path) - 1) : url.path[i].k = "word" /\ url.path[i].s = cat

extract_category_from_url(url) ==
    LET found == {n \in 1..Len(Categories) : CategoryInPath(url, Categories[n])}
    IN  IF found = {} THEN ""
        ELSE Capitalized[CHOOSE n \in found : \A m \in found : n <= m]

(***************************************************************************)
(* Pages.  A page is what the web serves for a candidate URL:               *)
(*   status   "ok", or "error" when the GET or raise_for_status raises      *)
(*   html     the document as extract_thewire_article reads it              *)
(*   np       what newspaper's Article yields for it (an external library)  *)
(* A JSON value is [t, v]: t its type ("str", "list", "null"), v its        *)
(* characters or elements.  A date string is [t, parsable, raw]: raw is the *)
(* datetime dateutil reads from it when it is parsable.                     *)
(***************************************************************************)
StrVal(s) == [t |-> "str", v |-> s]
ListVal(l) == [t |-> "list", v |-> l]
NullVal == [t |-> "null", v |-> <<>>]

Truthy(val) == val.t # "null" /\ Len(val.v) > 0

NoRaw == [date |-> NoDate, hh |-> 0, aware |-> FALSE, off |-> 0]
DateStr(raw) == [t |-> "str", parsable |-> TRUE, raw |-> raw]
BadDateStr == [t |-> "str", parsable |-> FALSE, raw |-> NoRaw]
NonStrDate == [t |-> "null", parsable |-> FALSE, raw |-> NoRaw]

\* article_data as initialised at lines 198-206
EmptyArticle(url) ==
    [url |-> url, title |-> EmptyStr, authors |-> <<>>, summary |-> StrVal(EmptyStr),
     text |-> StrVal(EmptyStr), publish_date |-> None, category |-> ""]

\* parser.parse(x) followed by the tzinfo branch; None when parser.parse raises
\* (ParserError on an unparsable string, TypeError on a non-string)
ParseToIST(ds) ==
    IF ds.t = "str" /\ ds.parsable THEN Some(NormalizeIST(ds.raw)) ELSE None

\* lines 213-214: None when .replace raises AttributeError on a non-string
ApplyHeadline(b, a) ==
    IF b.headline = None THEN Some(a)
    ELSE IF b.headline[1].t # "str" THEN None
    ELSE Some([a EXCEPT !.title = Strip(RemoveWireSuffix(b.headline[1].v))])

\* lines 216-222
ApplyDatePublished(b, a) ==
    IF b.datePublished = None THEN Some(a)
    ELSE LET d == ParseToIST(b.datePublished[1])
         IN  IF d = None THEN None ELSE Some([a EXCEPT !.publish_date = d])

\* lines 224-226: len(None) raises TypeError, list + "..." raises TypeError
ApplyArticleBody(b, a) ==
    IF b.articleBody = None THEN Some(a)
    ELSE LET body == b.articleBody[1]
         IN  IF body.t = "null" THEN None
             ELSE IF body.t = "list"
                  THEN IF Len(body.v) > SUMMARY_LIMIT THEN None
                       ELSE Some([a EXCEPT !.text = body, !.summary = body])
             ELSE Some([a EXCEPT !.text = body, !.summary = StrVal(Truncate(body.v))])

\* lines 228-234: author is [t, names]: a dict with a name, or a list of dicts
ApplyAuthor(b, a) ==
    IF b.author = None THEN Some(a)
    ELSE IF b.author[1].t \in {"dict", "list"}
         THEN Some([a EXCEPT !.authors = b.author[1].names])
    ELSE Some(a)

\* the body of the isinstance branch, lines 213-235, in statement order
ApplyNewsArticle(b, a) ==
    LET s1 == ApplyHeadline(b, a)
        s2 == IF s1 = None THEN None ELSE ApplyDatePublished(b, s1[1])
        s3 == IF s2 = None THEN None ELSE ApplyArticleBody(b, s2[1])
    IN  IF s3 = None THEN None ELSE ApplyAuthor(b, s3[1])

\* lines 208-237.  json.loads(None) on an empty block raises TypeError, which
\* the inner except does not catch; JSONDecodeError continues; the first
\* NewsArticle dict is applied and ends the loop.
RECURSIVE ScanScripts(_, _)
ScanScripts(scripts, a) ==
    IF scripts = <<>> THEN Some(a)
    ELSE LET b == Head(scripts)
         IN  IF b.kind = "empty" THEN None
             ELSE IF b.kind = "notjson" THEN ScanScripts(Tail(scripts), a)
             ELSE IF b.kind = "dict" /\ b.type = "NewsArticle" THEN ApplyNewsArticle(b, a)
             ELSE ScanScripts(Tail(scripts), a)

\* lines 239-246
FillTitle(h, a) ==
    IF a.title # EmptyStr THEN a
    ELSE IF h.ogTitle # None
         THEN [a EXCEPT !.title = Strip(RemoveWireSuffix(h.ogTitle[1]))]
    ELSE IF h.h1 # None THEN [a EXCEPT !.title = Strip(h.h1[1])]
    ELSE a

\* lines 248-256
FillDate(h, a) ==
    IF a.publish_date # None \/ h.dateMeta = None THEN Some(a)
    ELSE LET d == ParseToIST(h.dateMeta[1])
         IN  IF d = None THEN None ELSE Some([a EXCEPT !.publish_date = d])

\* lines 258-261
FillSummary(h, a) ==
    IF Truthy(a.summary) \/ h.ogDesc = None THEN a
    ELSE [a EXCEPT !.summary = StrVal(Strip(h.ogDesc[1]))]

\* lines 264-268
FillCategory(h, a) ==
    IF h.section # "" THEN [a EXCEPT !.category = h.section]
    ELSE [a EXCEPT !.category = extract_category_from_url(a.url)]

\* lines 270-284: h.content is the p/div texts of the first container found
FillText(h, a) ==
    IF Truthy(a.text) \/ h.content = None THEN a
    ELSE LET paragraphs == SelectSeq(h.content[1], LAMBDA q : Len(q) > MIN_PARAGRAPH)
         IN  IF paragraphs = <<>> THEN a
             ELSE [a EXCEPT !.text = StrVal(JoinWith("SP", paragraphs)),
                            !.summary = IF Truthy(a.summary) THEN a.summary
                                        ELSE StrVal(Truncate(paragraphs[1]))]

\* extract_thewire_article: None on any exception (lines 286-288)
extract_thewire_article(url, pg) ==
    IF pg.status # "ok" THEN None
    ELSE LET h == pg.html
             s1 == ScanScripts(h.scripts, EmptyArticle(url))
             s2 == IF s1 = None THEN None ELSE FillDate(h, FillTitle(h, s1[1]))
         IN  IF s2 = None THEN None
             ELSE Some(FillText(h, FillCategory(h, FillSummary(h, s2[1]))))

\* lines 294-322, the newspaper branch
ExtractGeneric(url, pg) ==
    IF pg.status # "ok" \/ ~pg.np.parseOk THEN None
    ELSE Some([url |-> url,
               title |-> pg.np.title,
               authors |-> pg.np.authors,
               summary |-> StrVal(IF pg.np.nlpOk THEN pg.np.summary ELSE EmptyStr),
               text |-> StrVal(pg.np.text),
               publish_date |-> IF pg.np.publish_date = None THEN None
                                ELSE Some(NormalizeIST(pg.np.publish_date[1])),
               category |-> extract_category_from_url(url)])

\* extract_article_with_newspaper (lines 291-322)
extract_article_with_newspaper(url, pg) ==
    IF ContainsTheWire(url) THEN extract_thewire_article(url, pg)
    ELSE ExtractGeneric(url, pg)

(***************************************************************************)
(* scrape_site, the body of the loop over candidates                        *)
(***************************************************************************)
\* as KeepDecision, but consulting the URL of a thewire link before the instant
KeepUrlFirst(url, a, today) ==
    LET url_date == extract_date_from_thewire_url(url)
    IN  IF ContainsTheWire(url) /\ url_date # None THEN url_date[1] = today
        ELSE IF a.publish_date # None THEN a.publish_date[1].date = today
        ELSE IF ContainsTheWire(url) THEN TRUE
        ELSE IsoInPath(url, today)

\* as KeepDecision, but dropping an undated thewire link
KeepDropUndated(url, a, today) ==
    IF a.publish_date # None THEN a.publish_date[1].date = today
    ELSE IF ContainsTheWire(url)
         THEN LET url_date == extract_date_from_thewire_url(url)
              IN  IF url_date # None THEN url_date[1] = today ELSE FALSE
    ELSE IsoInPath(url, today)

\* lines 384-393
KeepDecision(url, a, today) ==
    IF a.publish_date # None THEN a.publish_date[1].date = today
    ELSE IF ContainsTheWire(url)
         THEN LET url_date == extract_date_from_thewire_url(url)
              IN  IF url_date # None THEN url_date[1] = today ELSE TRUE
    ELSE IsoInPath(url, today)

\* datetime.isoformat() of an aware datetime: date, "T", time, offset
IsoFormat(dt) == <<"DATE", dt.date, "T", dt.hh, "OFFSET", dt.off>>

\* lines 396-405: None when a .strip() is called on a value that is no string
\* (AttributeError, which leaves scrape_site)
BuildRow(site_name, a) ==
    IF a.summary.t # "str" \/ a.text.t # "str" THEN None
    ELSE Some([site |-> site_name,
               url |-> a.url,
               title |-> Strip(a.title),
               authors |-> JoinWith("CS", a.authors),
               summary |-> ReplaceNewlines(Strip(a.summary.v)),
               text |-> ReplaceNewlines(Strip(a.text.v)),
               publish_date |-> IF a.publish_date # None
                                THEN IsoFormat(a.publish_date[1]) ELSE <<>>,
               category |-> a.category])

(***************************************************************************)
(* Inputs: dates, URLs and pages the candidate loop is run on               *)
(***************************************************************************)
D0103 == <<2024, 1, 3>>
D0104 == <<2024, 1, 4>>
D0105 == <<2024, 1, 5>>
D0229 == <<2024, 2, 29>>
D0301 == <<2024, 3, 1>>

TargetDates == {D0105, D0301}

Raw(d, hh, aware, off) == [date |-> d, hh |-> hh, aware |-> aware, off |-> off]

\* 23:30Z, 23:30+05:30, naive midnight, 18:30Z, naive 18:30 on Feb 29, 00:00+09:00
RawInstants ==
    {Raw(D0104, 47, TRUE, 0), Raw(D0104, 47, TRUE, IST_OFFSET), Raw(D0105, 0, FALSE, 0),
     Raw(D0105, 37, TRUE, 0), Raw(D0229, 37, FALSE, 0), Raw(D0105, 0, TRUE, 18)}

DateSegs(d) == <<Num(4, d[1]), Num(2, d[2]), Num(2, d[3])>>

\* the pieces candidate paths are put together from
Chunks ==
    {<<>>, DateSegs(D0105), DateSegs(D0103), <<Num(4, 2024), Num(2, 13), Num(2, 45)>>,
     <<IsoWord(D0105)>>, <<IsoWord(D0103)>>, <<Word("world")>>,
     <<Word("thewire.in-row")>>, <<Word("piece")>>}

RECURSIVE PathsOf(_)
PathsOf(n) ==
    IF n = 0 THEN {<<>>}
    ELSE {c \o p : c \in Chunks, p \in PathsOf(n - 1)}

Hosts == {"www.thehindu.com", "m.thewire.in"}
Url(host, path) == [host |-> host, path |-> path]
ResolveLinks == {Url(h, p) : h \in Hosts, p \in PathsOf(MaxChunks)}

NoBlockFields(kind, type) ==
    [kind |-> kind, type |-> type, headline |-> None, datePublished |-> None,
     articleBody |-> None, author |-> None]

NewsArticle(headline, datePublished, articleBody, author) ==
    [kind |-> "dict", type |-> "NewsArticle", headline |-> headline,
     datePublished |-> datePublished, articleBody |-> articleBody, author |-> author]

\* an empty block, text that is no JSON, a JSON list, a dict of another @type
SimpleBlocks ==
    {NoBlockFields("empty", ""), NoBlockFields("notjson", ""), NoBlockFields("list", ""),
     [NoBlockFields("dict", "WebPage") EXCEPT !.headline = Some(StrVal(<<"w">>))]}

Headlines == {None, Some(StrVal(<<"h", "SUFFIX">>)), Some(StrVal(<<"SP", "SUFFIX">>)), Some(NullVal)}
DatesPublished == {None, Some(DateStr(Raw(D0104, 47, TRUE, 0))),
                   Some(DateStr(Raw(D0103, 0, FALSE, 0))), Some(BadDateStr)}
Bodies == {None, Some(StrVal(<<"SP", "a", "NL", "a">>)), Some(ListVal(<<"p", "q">>)), Some(NullVal)}
AuthorsOf == {None, Some([t |-> "list", names |-> << <<"x">>, <<"y">> >>])}

NewsArticles ==
    {NewsArticle(h, d, b, au) : h \in Headlines, d \in DatesPublished, b \in Bodies, au \in AuthorsOf}

PlainArticle == NewsArticle(Some(StrVal(<<"h">>)), None, None, None)
OtherArticle == NewsArticle(Some(StrVal(<<"g">>)), None, Some(StrVal(<<"b">>)), None)

RECURSIVE SimpleSeqs(_)
SimpleSeqs(n) ==
    IF n = 0 THEN {<<>>}
    ELSE SimpleSeqs(n - 1) \cup {<<b>> \o q : b \in SimpleBlocks, q \in {r \in SimpleSeqs(n - 1) : Len(r) = n - 1}}

ScriptTails == {<<>>, <<PlainArticle, OtherArticle>>} \cup {<<na>> : na \in NewsArticles}
ScriptSeqs == {pre \o tl : pre \in SimpleSeqs(MaxScripts - 1), tl \in ScriptTails}

Para21 == [i \in 1..21 |-> "a"]
Long201 == [i \in 1..201 |-> IF i = 3 THEN "NL" ELSE "a"]

Html(scripts, ogTitle, h1, dateMeta, ogDesc, section, content) ==
    [scripts |-> scripts, ogTitle |-> ogTitle, h1 |-> h1, dateMeta |-> dateMeta,
     ogDesc |-> ogDesc, section |-> section, content |-> content]

OgTitles == {None, Some(<<"o", "SUFFIX">>), Some(<<>>)}
H1s == {None, Some(<<"i">>)}
DateMetas == {None, Some(DateStr(Raw(D0105, 0, TRUE, IST_OFFSET))), Some(BadDateStr)}
OgDescs == {None, Some(<<"d", "NL", "d">>)}
Sections == {"", "Government"}
Contents == {None, Some(<<Para21, <<"a", "a">> >>)}

Np(parseOk, title, text, publish_date, nlpOk) ==
    [parseOk |-> parseOk, title |-> title, authors |-> << <<"x">> >>, text |-> text,
     publish_date |-> publish_date, nlpOk |-> nlpOk, summary |-> <<"s", "NL", "s">>]

DefaultNp == Np(TRUE, <<"t">>, <<"a", "NL", "a">>, None, TRUE)
DefaultHtml == Html(<<>>, None, None, None, None, "", None)

Page(status, html, np) == [status |-> status, html |-> html, np |-> np]

\* pages that differ in the publish instant only, read by either extractor
DatedPages ==
    {Page("ok", DefaultHtml, DefaultNp)} \cup
    {Page("ok", [DefaultHtml EXCEPT !.scripts = <<NewsArticle(None, Some(DateStr(r)), None, None)>>],
          [DefaultNp EXCEPT !.publish_date = Some(r)]) : r \in RawInstants}

\* pages of the structured source
WirePages ==
    {Page("error", DefaultHtml, DefaultNp)} \cup
    {Page("ok", Html(sc, og, h, dm, ds, se, ct), DefaultNp) :
        sc \in ScriptSeqs, og \in OgTitles, h \in H1s, dm \in DateMetas,
        ds \in OgDescs, se \in Sections, ct \in Contents} \cup
    {Page("ok", [DefaultHtml EXCEPT !.scripts = <<NewsArticle(None, None, Some(b), None)>>], DefaultNp) :
        b \in {StrVal(Long201), ListVal(Long201)}} \cup
    {Page("ok", [DefaultHtml EXCEPT !.content = Some(<<Long201>>)], DefaultNp),
     Page("ok", [DefaultHtml EXCEPT !.scripts = <<NewsArticle(None, Some(NonStrDate), None, None)>>],
          DefaultNp)}

\* pages of the other sites, as newspaper reads them
GenericPages ==
    {Page("error", DefaultHtml, DefaultNp)} \cup
    {Page("ok", DefaultHtml, Np(ok, t, x, pd, nlp)) :
        ok \in BOOLEAN, t \in {<<>>, <<"SP", "t">>}, x \in {<<>>, <<"a", "NL", "a", "NL">>},
        pd \in {None, Some(Raw(D0104, 47, TRUE, 0)), Some(Raw(D0105, 37, FALSE, 0))},
        nlp \in BOOLEAN}

WireLinks == {Url("m.thewire.in", p) : p \in {<<Word("politics"), Word("piece")>>,
                                              <<Word("politics")>> \o DateSegs(D0105) \o <<Word("piece")>>}}
GenericLinks == {Url("www.thehindu.com", p) : p \in {<<Word("world"), IsoWord(D0105)>>,
                                                     <<Word("sports"), Word("piece")>>}}

SiteOf(url) == IF url.host = "m.thewire.in" THEN "The Wire" ELSE "The Hindu"

(***************************************************************************)
(* One candidate through the loop body of scrape_site (lines 379-409)       *)
(***************************************************************************)
MainIdle ==
    /\ mpc = "idle" /\ all_rows = <<>> /\ siteIdx = 0 /\ spc = "idle" /\ seedIdx = 0
    /\ seedsOk = 0
    /\ candidate_links = {} /\ todo = <<>> /\ attempts = <<>> /\ passed = {}
    /\ results = <<>> /\ feedTodo = <<>> /\ feedLog = <<>> /\ siteLog = <<>>
    /\ sinceFetch = <<>> /\ lastFetch = <<>>

InitCandidate ==
    /\ cpc = "start" /\ art = None /\ keep = FALSE /\ row = None
    /\ \/ today_ist \in TargetDates /\ link \in ResolveLinks /\ page \in DatedPages
       \/ today_ist = D0105 /\ link \in WireLinks /\ page \in WirePages
       \/ today_ist = D0105 /\ link \in GenericLinks /\ page \in GenericPages
    /\ MainIdle

\* line 381-383
CandExtract ==
    /\ cpc = "start"
    /\ art' = extract_article_with_newspaper(link, page)
    /\ cpc' = IF art' = None THEN "skipped" ELSE "extracted"
    /\ UNCHANGED <<today_ist, link, page, keep, row, mainVars>>

\* lines 384-393
CandDecide ==
    /\ cpc = "extracted"
    /\ keep' = KeepDecision(link, art[1], today_ist)
    /\ cpc' = "decided"
    /\ UNCHANGED <<today_ist, link, page, art, row, mainVars>>

\* lines 395-409
CandAppend ==
    /\ cpc = "decided"
    /\ IF keep
       THEN /\ row' = BuildRow(SiteOf(link), art[1])
            /\ cpc' = IF row' = None THEN "raised" ELSE "kept"
       ELSE /\ row' = None
            /\ cpc' = "dropped"
    /\ UNCHANGED <<today_ist, link, page, art, keep, mainVars>>

NextCandidate == CandExtract \/ CandDecide \/ CandAppend

SpecCandidate == InitCandidate /\ [][NextCandidate]_vars

(***************************************************************************)
(* main, scrape_ndtv_rss and scrape_site                                    *)
(***************************************************************************)
\* MAX_LINKS_PER_SITE is 250 in the source; the model runs with a cap its
\* candidate sets can exceed
MAX_LINKS_PER_SITE == 2

\* SITES (lines 41-72), two of the eight entries, in order
SITES ==
    <<[name |-> "The Hindu", seeds |-> <<"https://www.thehindu.com/", "https://www.thehindu.com/archive/">>,
       origin |-> "www.thehindu.com"],
      [name |-> "The Wire", seeds |-> <<"https://m.thewire.in/">>, origin |-> "m.thewire.in"]>>

\* the links a seed page of the site may hold
SiteLinks(i) ==
    IF SITES[i].origin = "m.thewire.in"
    THEN {Url("m.thewire.in", <<Word("politics"), Word("piece")>>),
          Url("m.thewire.in", <<Word("law")>> \o DateSegs(D0103) \o <<Word("piece")>>),
          Url("m.thewire.in", <<Word("world")>> \o DateSegs(D0105) \o <<Word("piece")>>)}
    ELSE {Url("www.thehindu.com", <<Word("world"), IsoWord(D0105)>>),
          Url("www.thehindu.com", <<Word("sports"), Word("piece")>>),
          Url("www.thehindu.com", <<Word("news")>> \o DateSegs(D0105) \o <<Word("piece")>>)}

WireDated(body) ==
    Page("ok", [DefaultHtml EXCEPT !.scripts =
        <<NewsArticle(Some(StrVal(<<"h">>)), Some(DateStr(Raw(D0104, 47, TRUE, 0))), Some(body), None)>>],
        DefaultNp)

\* what the web may serve for a candidate of the crawl
CrawlPages(url) ==
    IF ContainsTheWire(url)
    THEN {Page("error", DefaultHtml, DefaultNp),
          WireDated(StrVal(<<"a", "NL", "a">>)),
          WireDated(ListVal(<<"p", "q">>)),
          Page("ok", [DefaultHtml EXCEPT !.ogTitle = Some(<<"o">>)], DefaultNp)}
    ELSE {Page("error", DefaultHtml, DefaultNp),
          Page("ok", DefaultHtml, DefaultNp),
          Page("ok", DefaultHtml, [DefaultNp EXCEPT !.publish_date = Some(Raw(D0105, 0, FALSE, 0))]),
          Page("ok", DefaultHtml, [DefaultNp EXCEPT !.publish_date = Some(Raw(D0105, 37, TRUE, 0))])}

\* ---- the politeness bookkeeping -------------------------------------------
Origins == {"feeds.feedburner.com", "www.ndtv.com", "www.thehindu.com", "m.thewire.in"}

\* an HTTP request is issued to origin o
Issue(o, kind) ==
    /\ lastFetch' = <<[origin |-> o, kind |-> kind, prior |-> sinceFetch[o]]>>

\* after the request: time.sleep(DELAY_BETWEEN_REQUESTS) ran (slept) or not
AfterFetch(o, slept) ==
    IF slept THEN [x \in Origins |-> IF sinceFetch[x] = "never" /\ x # o THEN "never" ELSE "slept"]
    ELSE [sinceFetch EXCEPT ![o] = "nosleep"]

\* fetch (lines 75-83): the sleep is inside the try, after raise_for_status
FetchSleeps(ok) == ok

\* ---- the feed --------------------------------------------------------------
FeedStamp(raw) == [present |-> TRUE, parsable |-> TRUE, raw |-> raw]
NoStamp == [present |-> FALSE, parsable |-> FALSE, raw |-> NoRaw]
BadStamp == [present |-> TRUE, parsable |-> FALSE, raw |-> NoRaw]

Entry(n, published, hasSummary) ==
    [link |-> Url("www.ndtv.com", <<Word("india"), Word(n)>>), title |-> <<"t", n>>,
     published |-> published, hasSummary |-> hasSummary, summary |-> <<"s", "NL", n>>]

\* per position: no published field, an unparsable one, 23:30Z of the day
\* before (with and without a summary), 18:30Z of the day
EntriesAt(n) ==
    {Entry(n, NoStamp, TRUE), Entry(n, BadStamp, TRUE),
     Entry(n, FeedStamp(Raw(D0104, 47, TRUE, 0)), TRUE),
     Entry(n, FeedStamp(Raw(D0104, 47, TRUE, 0)), FALSE),
     Entry(n, FeedStamp(Raw(D0105, 37, TRUE, 0)), TRUE)}

EntryNames == <<"e1", "e2", "e3", "e4">>

RECURSIVE FeedsOf(_)
FeedsOf(n) ==
    IF n = 0 THEN {<<>>}
    ELSE FeedsOf(n - 1) \cup
         {f \o <<e>> : f \in {g \in FeedsOf(n - 1) : Len(g) = n - 1}, e \in EntriesAt(EntryNames[n])}

\* the string of entry.published, kept as the feed wrote it
FeedDateString(raw) == <<"RFC822", raw.date, "TIME", raw.hh, "ZONE", raw.off>>

\* as FeedKeeps, without the hasattr test of line 330
FeedKeepsUnstamped(e, today) ==
    \/ ~e.published.present
    \/ /\ e.published.parsable
       /\ AsTimezoneIST([date |-> e.published.raw.date, hh |-> e.published.raw.hh,
                         off |-> e.published.raw.off]).date = today

\* lines 330-336: does the entry pass the date test
FeedKeeps(e, today) ==
    /\ e.published.present
    /\ e.published.parsable
    /\ AsTimezoneIST([date |-> e.published.raw.date, hh |-> e.published.raw.hh,
                      off |-> e.published.raw.off]).date = today

\* lines 337-358: fetched = <<>> when download or parse raised, else <<text>>
FeedRow(e, fetched) ==
    [site |-> "NDTV",
     url |-> e.link,
     title |-> e.title,
     authors |-> IF fetched = None THEN <<>> ELSE JoinWith("CS", << <<"x">> >>),
     summary |-> IF e.hasSummary THEN e.summary ELSE <<>>,
     text |-> IF fetched = None THEN <<>> ELSE fetched[1],
     publish_date |-> FeedDateString(e.published.raw),
     category |-> extract_category_from_url(e.link)]

FeedTexts == {None, Some(<<"a", "NL", "a">>)}

\* ---- main ------------------------------------------------------------------
\* line 419: all_rows.extend(scrape_site(...))
ExtendRows(rows, returned) == rows \o returned

\* as OnSiteException, but losing what was collected so far
OnSiteExceptionReset(rows) == <<>>

\* lines 420-421: the except clause leaves all_rows as it is
OnSiteException(rows) == rows

\* what main has seen of a site: how scrape_site ended, whether any seed
\* fetch returned a page, and the list it held when it ended
SiteLogEntry(outcome) ==
    [site |-> SITES[siteIdx].name, outcome |-> outcome, seedsOk |-> seedsOk, rows |-> results]

Init ==
    /\ today_ist = D0105
    /\ cpc = "idle" /\ link = Url("", <<>>) /\ page = Page("error", DefaultHtml, DefaultNp)
    /\ art = None /\ keep = FALSE /\ row = None
    /\ mpc = "start" /\ all_rows = <<>> /\ siteIdx = 0 /\ spc = "idle" /\ seedIdx = 0
    /\ seedsOk = 0
    /\ candidate_links = {} /\ todo = <<>> /\ attempts = <<>> /\ passed = {}
    /\ results = <<>> /\ feedTodo = <<>> /\ feedLog = <<>> /\ siteLog = <<>>
    /\ sinceFetch = [o \in Origins |-> "never"] /\ lastFetch = <<>>

candIdle == <<cpc, link, page, art, keep, row>>

\* line 327: feedparser.parse fetches the feed
FeedParse ==
    /\ mpc = "start"
    /\ feedTodo' \in FeedsOf(MaxEntries)
    /\ Issue("feeds.feedburner.com", "feed")
    /\ sinceFetch' = AfterFetch("feeds.feedburner.com", FALSE)
    /\ mpc' = "feed"
    /\ UNCHANGED <<today_ist, candIdle, all_rows, siteIdx, spc, seedIdx, seedsOk,
                   candidate_links, todo, attempts, passed, results, feedLog, siteLog>>

\* lines 330-336: an entry that is skipped
FeedSkip ==
    /\ mpc = "feed" /\ feedTodo # <<>>
    /\ ~FeedKeeps(Head(feedTodo), today_ist)
    /\ feedLog' = Append(feedLog, [entry |-> Head(feedTodo), fetched |-> None, produced |-> None])
    /\ feedTodo' = Tail(feedTodo)
    /\ UNCHANGED <<today_ist, candIdle, mpc, all_rows, siteIdx, spc, seedIdx, seedsOk,
                   candidate_links, todo, attempts, passed, results, siteLog,
                   sinceFetch, lastFetch>>

\* lines 336-358: an entry of today; the article download may raise
FeedTake ==
    /\ mpc = "feed" /\ feedTodo # <<>>
    /\ FeedKeeps(Head(feedTodo), today_ist)
    /\ \E fetched \in FeedTexts :
          LET r == FeedRow(Head(feedTodo), fetched)
          IN  /\ results' = Append(results, r)
              /\ feedLog' = Append(feedLog, [entry |-> Head(feedTodo), fetched |-> fetched,
                                             produced |-> Some(r)])
    /\ Issue("www.ndtv.com", "article")
    /\ sinceFetch' = AfterFetch("www.ndtv.com", FALSE)
    /\ feedTodo' = Tail(feedTodo)
    /\ UNCHANGED <<today_ist, candIdle, mpc, all_rows, siteIdx, spc, seedIdx, seedsOk,
                   candidate_links, todo, attempts, passed, siteLog>>

\* scrape_site begins on site i (line 365), or main has run out of sites
EnterSite(i) ==
    /\ siteIdx' = i
    /\ seedIdx' = 1 /\ seedsOk' = 0 /\ candidate_links' = {} /\ todo' = <<>>
    /\ attempts' = <<>> /\ passed' = {} /\ results' = <<>>
    /\ IF i <= Len(SITES) THEN mpc' = "sites" /\ spc' = "seeds"
       ELSE mpc' = "done" /\ spc' = "idle"

\* lines 359-360 and 416; of the loop's entries only those behind a returned
\* record are remembered once scrape_ndtv_rss has returned
FeedReturn ==
    /\ mpc = "feed" /\ feedTodo = <<>>
    /\ all_rows' = ExtendRows(all_rows, results)
    /\ feedLog' = SelectSeq(feedLog, LAMBDA x : x.produced # None)
    /\ EnterSite(1)
    /\ UNCHANGED <<today_ist, candIdle, feedTodo, siteLog, sinceFetch, lastFetch>>

Site == SITES[siteIdx]

\* lines 368-370: fetch returned None
SeedFail ==
    /\ mpc = "sites" /\ spc = "seeds" /\ seedIdx <= Len(Site.seeds)
    /\ Issue(Site.origin, "seed")
    /\ sinceFetch' = AfterFetch(Site.origin, FetchSleeps(FALSE))
    /\ seedIdx' = seedIdx + 1
    /\ UNCHANGED <<today_ist, candIdle, mpc, all_rows, siteIdx, spc, seedsOk, candidate_links,
                   todo, attempts, passed, results, feedTodo, feedLog, siteLog>>

\* lines 368-375: the seed page is fetched and its links are collected
SeedOk ==
    /\ mpc = "sites" /\ spc = "seeds" /\ seedIdx <= Len(Site.seeds)
    /\ Issue(Site.origin, "seed")
    /\ sinceFetch' = AfterFetch(Site.origin, FetchSleeps(TRUE))
    /\ \E new_links \in SUBSET SiteLinks(siteIdx) :
          /\ Cardinality(new_links) <= MaxFound
          /\ candidate_links' = candidate_links \cup new_links
    /\ seedsOk' = seedsOk + 1
    /\ seedIdx' = IF Cardinality(candidate_links') >= MAX_LINKS_PER_SITE
                  THEN Len(Site.seeds) + 1 ELSE seedIdx + 1
    /\ UNCHANGED <<today_ist, candIdle, mpc, all_rows, siteIdx, spc, todo, attempts, passed,
                   results, feedTodo, feedLog, siteLog>>

\* line 371 raising: urljoin and urlparse raise ValueError on a malformed href
\* (lines 175, 183-184), and nothing in scrape_site catches it
SeedRaise ==
    /\ mpc = "sites" /\ spc = "seeds" /\ seedIdx <= Len(Site.seeds)
    /\ Issue(Site.origin, "seed")
    /\ sinceFetch' = AfterFetch(Site.origin, FetchSleeps(TRUE))
    /\ seedsOk' = seedsOk + 1
    /\ spc' = "raised"
    /\ UNCHANGED <<today_ist, candIdle, mpc, all_rows, siteIdx, seedIdx, candidate_links, todo,
                   attempts, passed, results, feedTodo, feedLog, siteLog>>

\* the sequences list(candidate_links)[:MAX_LINKS_PER_SITE] may be: set order
\* is arbitrary
CappedOrders(S) ==
    LET n == IF Cardinality(S) < MAX_LINKS_PER_SITE THEN Cardinality(S) ELSE MAX_LINKS_PER_SITE
    IN  {f \in [1..n -> S] : \A i, j \in 1..n : i # j => f[i] # f[j]}

\* lines 376-379
StartLoop ==
    /\ mpc = "sites" /\ spc = "seeds" /\ seedIdx > Len(Site.seeds)
    /\ todo' \in CappedOrders(candidate_links)
    /\ spc' = "loop"
    /\ UNCHANGED <<today_ist, candIdle, mpc, all_rows, siteIdx, seedIdx, seedsOk, candidate_links,
                   attempts, passed, results, feedTodo, feedLog, siteLog, sinceFetch, lastFetch>>

\* lines 379-409: one iteration of the loop; a row that cannot be built
\* raises out of scrape_site
CandStep ==
    /\ mpc = "sites" /\ spc = "loop" /\ todo # <<>>
    /\ Issue(Head(todo).host, "article")
    /\ sinceFetch' = AfterFetch(Head(todo).host, FALSE)
    /\ attempts' = Append(attempts, Head(todo))
    /\ todo' = Tail(todo)
    /\ \E pg \in CrawlPages(Head(todo)) :
          LET l == Head(todo)
              a == extract_article_with_newspaper(l, pg)
          IN  IF a = None \/ ~KeepDecision(l, a[1], today_ist)
              THEN UNCHANGED <<spc, passed, results>>
              ELSE LET r == BuildRow(Site.name, a[1])
                   IN  /\ passed' = passed \cup {l}
                       /\ IF r # None
                          THEN results' = Append(results, r[1]) /\ spc' = spc
                          ELSE results' = results /\ spc' = "raised"
    /\ UNCHANGED <<today_ist, candIdle, mpc, all_rows, siteIdx, seedIdx, seedsOk, candidate_links,
                   feedTodo, feedLog, siteLog>>

\* lines 410-411
SiteReturn ==
    /\ mpc = "sites" /\ spc = "loop" /\ todo = <<>>
    /\ spc' = "returned"
    /\ UNCHANGED <<today_ist, candIdle, mpc, all_rows, siteIdx, seedIdx, seedsOk, candidate_links,
                   todo, attempts, passed, results, feedTodo, feedLog, siteLog,
                   sinceFetch, lastFetch>>

\* line 419, then the next site
MainCollect ==
    /\ mpc = "sites" /\ spc = "returned"
    /\ siteLog' = Append(siteLog, SiteLogEntry("returned"))
    /\ all_rows' = ExtendRows(all_rows, results)
    /\ EnterSite(siteIdx + 1)
    /\ UNCHANGED <<today_ist, candIdle, feedTodo, feedLog, sinceFetch, lastFetch>>

\* lines 420-421, then the next site
MainExcept ==
    /\ mpc = "sites" /\ spc = "raised"
    /\ siteLog' = Append(siteLog, SiteLogEntry("raised"))
    /\ all_rows' = OnSiteException(all_rows)
    /\ EnterSite(siteIdx + 1)
    /\ UNCHANGED <<today_ist, candIdle, feedTodo, feedLog, sinceFetch, lastFetch>>

Next ==
    \/ FeedParse \/ FeedSkip \/ FeedTake \/ FeedReturn
    \/ SeedFail \/ SeedOk \/ SeedRaise \/ StartLoop \/ CandStep \/ SiteReturn
    \/ MainCollect \/ MainExcept

Spec == Init /\ [][Next]_vars

(***************************************************************************)
(* Properties                                                               *)
(***************************************************************************)
Decided == cpc \in {"decided", "kept", "dropped", "raised"}

\* the dates that occur in the URL as a /YYYY/MM/DD/ segment naming a day of
\* the calendar
UrlDates(url) ==
    {<<url.path[i].v, url.path[i + 1].v, url.path[i + 2].v>> :
        i \in {j \in 1..Len(url.path) :
                 /\ DatePatternAt(url.path, j)
                 /\ ValidDate(url.path[j].v, url.path[j + 1].v, url.path[j + 2].v)}}

\* the leftmost /NNNN/NN/NN/ of the URL, as a set of at most one position
Leftmost(url) ==
    {i \in 1..Len(url.path) :
        DatePatternAt(url.path, i) /\ \A j \in 1..(i - 1) : ~DatePatternAt(url.path, j)}

\* C1: when the extracted article has a publish instant, keep is exactly
\* (the instant's date in Asia/Kolkata = the target date), whatever the URL holds.
C1_InstantDecides ==
    (Decided /\ art[1].publish_date # None)
        => (keep <=> art[1].publish_date[1].date = today_ist)

\* a thewire candidate kept on its instant although its URL is dated another day
C1_Witness ==
    /\ cpc = "decided" /\ art[1].publish_date # None /\ keep
    /\ link.host = "m.thewire.in" /\ UrlDates(link) = {D0103}
    /\ IsoInPath(link, D0103) /\ today_ist = D0105

\* C2 as stated: with no instant and a valid /YYYY/MM/DD/ date in the URL, a
\* candidate of any site is kept iff that date is the target date.
C2_AnySiteUrlDate ==
    (Decided /\ art[1].publish_date = None)
        => \A d \in UrlDates(link) :
              UrlDates(link) = {d} => (keep <=> today_ist = d)

\* C2 as amended: with no instant, a candidate whose URL contains 'thewire.in'
\* and whose leftmost /NNNN/NN/NN/ names a calendar day is kept iff that day
\* is the target date; a candidate whose URL does not contain 'thewire.in'
\* is kept iff the target date's ISO string is in its path, whatever
\* /YYYY/MM/DD/ segment it holds.
C2_WireLeftmostUrlDate ==
    (Decided /\ art[1].publish_date = None)
        => /\ \A i \in Leftmost(link) :
                 (ContainsTheWire(link)
                    /\ ValidDate(link.path[i].v, link.path[i + 1].v, link.path[i + 2].v))
                 => (keep <=> today_ist = <<link.path[i].v, link.path[i + 1].v, link.path[i + 2].v>>)
           /\ (~ContainsTheWire(link) /\ UrlDates(link) # {})
                 => (keep <=> IsoInPath(link, today_ist))

\* a thewire candidate without instant, dated another day in its URL, dropped
C2_Witness ==
    /\ cpc = "decided" /\ art[1].publish_date = None /\ ~keep
    /\ link.host = "m.thewire.in" /\ UrlDates(link) = {D0103} /\ today_ist = D0105

C4_DelayBetweenFetches ==
    lastFetch # <<>> => lastFetch[1].prior # "nosleep"

\* the rows a sequence of log entries stands for
RECURSIVE Flatten(_)
Flatten(seqs) == IF seqs = <<>> THEN <<>> ELSE Head(seqs) \o Flatten(Tail(seqs))

FeedProduced == Flatten([i \in 1..Len(feedLog) |-> feedLog[i].produced])

Contribution(e) == IF e.outcome = "raised" \/ e.seedsOk = 0 THEN <<>> ELSE e.rows

\* C5: a site whose seeds all fail or whose crawl raises contributes nothing,
\* every site is still crawled, and all_rows is the feed's records followed
\* by each other site's records, in order.
C5_SiteIsolation ==
    /\ mpc \in {"sites", "done"}
          => all_rows = FeedProduced \o Flatten([i \in 1..Len(siteLog) |-> Contribution(siteLog[i])])
    /\ mpc = "done"
          => /\ Len(siteLog) = Len(SITES)
             /\ \A i \in 1..Len(SITES) : siteLog[i].site = SITES[i].name

\* the first site's crawl raised, and the run ended with the feed's records
\* and the second site's
C5_Witness ==
    /\ mpc = "done" /\ FeedProduced # <<>>
    /\ siteLog[1].outcome = "raised"
    /\ siteLog[2].outcome = "returned" /\ siteLog[2].rows # <<>>
    /\ Len(all_rows) = Len(FeedProduced) + Len(siteLog[2].rows)

\* C6: once the page is fetched and parsed, the structured extractor
\* returns a record whatever the structured metadata holds.
C6_MalformedMetadataKept ==
    (cpc # "start" /\ cpc # "idle" /\ ContainsTheWire(link) /\ page.status = "ok")
        => art # None

IsIsoDateOnly(str) == Len(str) = 2 /\ str[1] = "DATE"

\* C7: every output record has publish_date empty or an ISO date-only
\* string, and text and summary without newline.
C7_RowNormalised ==
    \A i \in 1..Len(all_rows) :
        /\ all_rows[i].publish_date = <<>> \/ IsIsoDateOnly(all_rows[i].publish_date)
        /\ ~HasNewline(all_rows[i].text)
        /\ ~HasNewline(all_rows[i].summary)

\* the headline of the embedded article metadata, cleaned, or empty
RECURSIVE MetaHeadline(_)
MetaHeadline(scripts) ==
    IF scripts = <<>> THEN EmptyStr
    ELSE IF Head(scripts).kind = "dict" /\ Head(scripts).type = "NewsArticle"
         THEN IF Head(scripts).headline # None /\ Head(scripts).headline[1].t = "str"
              THEN Strip(RemoveWireSuffix(Head(scripts).headline[1].v)) ELSE EmptyStr
    ELSE MetaHeadline(Tail(scripts))

RECURSIVE FirstNonEmpty(_)
FirstNonEmpty(vals) ==
    IF vals = <<>> THEN EmptyStr
    ELSE IF Head(vals) # EmptyStr THEN Head(vals) ELSE FirstNonEmpty(Tail(vals))

\* C8: the title is the first non-empty of metadata headline, og:title,
\* first heading; an earlier source that yields an empty value does not stop
\* the next from being consulted.
C8_TitleChain ==
    (cpc # "start" /\ cpc # "idle" /\ ContainsTheWire(link) /\ art # None)
        => art[1].title =
              FirstNonEmpty(<<MetaHeadline(page.html.scripts),
                              IF page.html.ogTitle = None THEN EmptyStr
                              ELSE Strip(RemoveWireSuffix(page.html.ogTitle[1])),
                              IF page.html.h1 = None THEN EmptyStr ELSE Strip(page.html.h1[1])>>)

\* C9: an entry without a published field produces no record; an entry whose
\* published instant falls on the target date in Asia/Kolkata produces exactly
\* one, and when the article download fails that record has the feed's title
\* and summary and an empty text.
C9_FeedEntries ==
    /\ \A i \in 1..Len(feedLog) :
          LET e == feedLog[i].entry
              p == feedLog[i].produced
          IN  /\ ~e.published.present => p = None
              /\ (e.published.present /\ e.published.parsable
                    /\ NormalizeIST(e.published.raw).date = today_ist)
                 => /\ p # None
                    /\ p[1].url = e.link
                    /\ feedLog[i].fetched = None
                          => /\ p[1].title = e.title
                             /\ p[1].summary = (IF e.hasSummary THEN e.summary ELSE <<>>)
                             /\ p[1].text = <<>>
    /\ mpc = "feed" => results = FeedProduced

\* one entry without a published field was skipped, and one of today was
\* kept although its article could not be fetched
C9_Witness ==
    /\ mpc = "feed" /\ Len(feedLog) = 2
    /\ ~feedLog[1].entry.published.present
    /\ feedLog[2].produced # None /\ feedLog[2].fetched = None
    /\ results = feedLog[2].produced

IsCappedOrder(tried, links) ==
    /\ \A i, j \in 1..Len(tried) : i # j => tried[i] # tried[j]
    /\ \A i \in 1..Len(tried) : tried[i] \in links
    /\ Len(tried) = IF Cardinality(links) < MAX_LINKS_PER_SITE
                    THEN Cardinality(links) ELSE MAX_LINKS_PER_SITE

\* C10: once its seeds are read, scrape_site ends by returning, having tried
\* each candidate of the capped set exactly once, with exactly one record per
\* candidate that extracted and passed the date filter.
C10_LoopCompletes ==
    (spc = "returned" \/ (spc = "raised" /\ attempts # <<>>))
        => /\ spc = "returned"
           /\ IsCappedOrder(attempts, candidate_links)
           /\ Len(results) = Cardinality(passed)
           /\ \A i \in 1..Len(results) : results[i].url \in passed

====
